---- MODULE Spec2Model ----
(***************************************************************************)
(* Model of redock.utils.Config (src/redock/utils.py): the runtime         *)
(* configuration of Redock, a pickled dictionary in ~/.redock/state.pickle *)
(* that several processes update inside "with Config() as state:" blocks   *)
(* under flock(LOCK_EX).                                                    *)
(*                                                                         *)
(* Every process owns one Config object.  The steps of __enter__ and       *)
(* __exit__ that touch the file system or the lock are separate actions,   *)
(* because other processes can run between them.                           *)
(***************************************************************************)
EXTENDS Integers, Sequences, FiniteSets, TLC

\* ------------------------------------------------------------------ bounds
NumProcs == 2
MaxCalls == 2
NumIds == 1
MaxToolCalls == 3

Procs == 1..NumProcs
Ids == 1..NumIds

\* ------------------------------------------------------- program constants
CONFIG_VERSION == 1

\* ------------------------------------------------------------ dictionaries
\* A Python dict is a function from the keys it holds to values.  A value is
\* [n, s]: n is the integer of an integer field, s the key set of a mapping
\* field (the blobs a mapping holds are opaque to Config).
KeyOrder == <<"version", "containers", "counter", "extra">>
Keys == {KeyOrder[i] : i \in 1..Len(KeyOrder)}

IntVal(n) == [n |-> n, s |-> {}]
MapVal(s) == [n |-> 0, s |-> s]

EmptyDict == [k \in {} |-> IntVal(0)]
NoRec == [k \in {"no-record"} |-> IntVal(0)]

Put(d, k, v) == [x \in (DOMAIN d) \cup {k} |-> IF x = k THEN v ELSE d[x]]

\* dict.get(k, default) for an integer field
GetInt(d, k, default) == IF k \in DOMAIN d THEN d[k].n ELSE default

Rec(v, c) == [k \in {"version", "containers"} |->
                 IF k = "version" THEN IntVal(v) ELSE MapVal(c)]

DefaultRecord == Rec(CONFIG_VERSION, {})

\* ------------------------------------------------------------------ pickle
\* The file is a sequence of tokens.  pickle.dump writes one token per item
\* of the dict and a STOP token; pickle.load reads up to the first STOP and
\* fails on anything that is not an item token, or when STOP is missing.
Tok(k, v) == [k |-> k, n |-> v.n, s |-> v.s]
STOP == [k |-> "stop", n |-> 0, s |-> {}]
NUL == [k |-> "nul", n |-> 0, s |-> {}]
JUNK == [k |-> "junk", n |-> 0, s |-> {}]

Present(d) == SelectSeq(KeyOrder, LAMBDA k : k \in DOMAIN d)

Dumps(d) == [i \in 1..Len(Present(d)) |-> Tok(Present(d)[i], d[Present(d)[i]])]
               \o <<STOP>>

StopAt(data) ==
    IF \E i \in 1..Len(data) : data[i].k = "stop"
    THEN CHOOSE i \in 1..Len(data) :
            /\ data[i].k = "stop"
            /\ \A j \in 1..(i - 1) : data[j].k # "stop"
    ELSE 0

\* pickle.load succeeds
Parses(data) ==
    /\ StopAt(data) > 0
    /\ \A j \in 1..(StopAt(data) - 1) : data[j].k \in Keys

LastOf(data, k) ==
    CHOOSE j \in 1..(StopAt(data) - 1) :
        /\ data[j].k = k
        /\ \A i \in (j + 1)..(StopAt(data) - 1) : data[i].k # k

Loads(data) ==
    [k \in {data[j].k : j \in 1..(StopAt(data) - 1)} |->
        [n |-> data[LastOf(data, k)].n, s |-> data[LastOf(data, k)].s]]

\* write(2) of the first k tokens of new at offset 0: what lies behind stays
Overwrite(old, new, k) ==
    [i \in 1..(IF Len(old) > k THEN Len(old) ELSE k) |->
        IF i <= k THEN new[i] ELSE old[i]]

\* ftruncate(2) to n tokens: cuts, or extends with NUL bytes
TruncateTo(data, n) ==
    IF Len(data) >= n THEN SubSeq(data, 1, n)
    ELSE data \o [i \in 1..(n - Len(data)) |-> NUL]

\* ------------------------------------------------------------- Config.load
\* a load that resets containers of an old dict and leaves its version alone
MigrateKeepsVersion(d) ==
    IF GetInt(d, "version", 0) = 0
    THEN Put(d, "containers", MapVal({}))
    ELSE d

\* a load that migrates every dict whose version is not CONFIG_VERSION
MigrateNotCurrent(d) ==
    IF GetInt(d, "version", 0) # CONFIG_VERSION
    THEN Put(Put(d, "containers", MapVal({})), "version", IntVal(CONFIG_VERSION))
    ELSE d

\* a load that sets containers and version on every dict it unpickles
MigrateAlways(d) ==
    Put(Put(d, "containers", MapVal({})), "version", IntVal(CONFIG_VERSION))

\* Lines 91-94 of load: a dict without version, or with version 0, gets
\* state['containers'] = dict() and state['version'] = CONFIG_VERSION.
Migrate(d) ==
    IF GetInt(d, "version", 0) = 0
    THEN Put(Put(d, "containers", MapVal({})), "version", IntVal(CONFIG_VERSION))
    ELSE d

\* load(exists) with an open handle (inside __enter__): the unpickled dict,
\* or {} when exists is False, then migrated.
LoadResult(ex, data) == Migrate(IF ex THEN Loads(data) ELSE EmptyDict)

\* load raises: pickle.load is called (exists and handle) and fails
LoadRaises(ex, data) == ex /\ ~Parses(data)

\* ------------------------------------------------------------ caller block
Mutations == {"inc", "clear", "drop"} \cup {"add"}

\* what the body of the with-block does to the dict it was handed
Mutated(d, m, id) ==
    CASE m = "inc" -> Put(d, "counter", IntVal(GetInt(d, "counter", 0) + 1))
      [] m = "clear" -> Put(d, "containers", MapVal({}))
      [] m = "add" -> Put(d, "containers", MapVal(d["containers"].s \cup {id}))
      [] m = "drop" -> [k \in (DOMAIN d) \ {"extra"} |-> d[k]]

\* ------------------------------------------------------------------- state
VARIABLES
    fileExists,   \* os.path.isfile(CONFIG_FILE)
    fileData,     \* the content of CONFIG_FILE
    lock,         \* the process whose open file holds the flock, 0 if none
    pc,           \* where each process stands
    exists,       \* the local variable exists of __enter__
    handle,       \* self.handle: "none", or the mode the file was opened in
    state,        \* self.state
    calls,        \* with-statements and load() calls started so far
    outcome,      \* how the last with-statement of the process ended
    mut,          \* what the body of the last with-block did
    observed,     \* the dict load() last returned, until its with-block ends
    last,         \* the transaction that ended most recently
    lastCommit,   \* the dict most recently written completely by pickle.dump
    before,       \* the bytes of the file when the lock was last taken,
                  \* until that with-statement ends
    dirExists,    \* os.path.isdir(REDOCK_CONFIG_DIR)
    mirrorFile,   \* the content of UBUNTU_MIRROR_FILE, <<>> when absent
    privateKey,   \* the content of PRIVATE_SSH_KEY, "" when absent
    publicKey,    \* the content of PUBLIC_SSH_KEY, <<>> when absent
    keygenRuns,   \* how often ssh-keygen was started
    resolved,     \* how often mirrors.ubuntu.com was asked
    toolCalls,    \* calls of the functions outside Config so far
    ret           \* what the last call of a function outside Config returned

toolVars ==
    <<mirrorFile, privateKey, publicKey, keygenRuns, resolved, toolCalls, ret>>

configVars == <<fileExists, fileData, lock, pc, exists, handle, state, calls,
                outcome, mut, observed, last, lastCommit, before>>

vars == <<fileExists, fileData, lock, pc, exists, handle, state, calls, outcome,
          mut, observed, last, lastCommit, before, dirExists, toolVars>>

\* between the return of flock(LOCK_EX) and flock(LOCK_UN)
Critical == {"load", "block", "exit", "truncate", "release"}

NoTx ==
    [kind |-> "none", fresh |-> FALSE, mut |-> "none", rec |-> NoRec, by |-> 0]

Ended(kind, p, rec) ==
    [kind |-> kind, fresh |-> ~exists[p], mut |-> mut[p], rec |-> rec, by |-> p]

\* The backing file when the first process starts: absent, zero length,
\* bytes that are no pickle, or the pickle of a dict.
InitRecords ==
    { Rec(CONFIG_VERSION, {}),
      Rec(CONFIG_VERSION, Ids),
      Put(Rec(0, Ids), "extra", IntVal(7)),
      [k \in {"containers"} |-> MapVal(Ids)],
      [k \in {"version"} |-> IntVal(0)],
      Put(Rec(CONFIG_VERSION + 1, Ids), "extra", IntVal(7)) }

\* ssh-keygen was not started
NotRun == -1

\* no function outside Config has been called and none of its files is there
NoRet == [op |-> "none", kind |-> "none", val |-> <<>>, force |-> FALSE,
          fresh |-> FALSE, code |-> NotRun]

ToolsUnused ==
    /\ mirrorFile = <<>>
    /\ privateKey = ""
    /\ publicKey = <<>>
    /\ keygenRuns = 0
    /\ resolved = 0
    /\ toolCalls = 0
    /\ ret = NoRet

\* every Config object as __init__ leaves it, in a process that has done
\* nothing yet
ConfigUnused ==
    /\ lock = 0
    /\ pc = [p \in Procs |-> "idle"]
    /\ exists = [p \in Procs |-> FALSE]
    /\ handle = [p \in Procs |-> "none"]
    /\ state = [p \in Procs |-> EmptyDict]
    /\ calls = 0
    /\ outcome = [p \in Procs |-> "none"]
    /\ mut = [p \in Procs |-> "none"]
    /\ observed = [p \in Procs |-> NoRec]
    /\ last = NoTx
    /\ before = <<>>

Init ==
    /\ \/ /\ fileExists = FALSE
          /\ fileData = <<>>
          /\ lastCommit = NoRec
          /\ dirExists \in BOOLEAN
       \/ /\ fileExists = TRUE
          /\ fileData \in {<<>>, <<JUNK>>}
          /\ lastCommit = NoRec
          /\ dirExists = TRUE
       \/ /\ fileExists = TRUE
          /\ \E r \in InitRecords :
                /\ fileData = Dumps(r)
                /\ lastCommit = r
          /\ dirExists = TRUE
    /\ ToolsUnused
    /\ ConfigUnused

\* ---------------------------------------------------------------- __enter__
\* line 99: exists = os.path.isfile(CONFIG_FILE)
IsFile(p) ==
    /\ pc[p] = "idle"
    /\ calls < MaxCalls
    /\ pc' = [pc EXCEPT ![p] = "open"]
    /\ exists' = [exists EXCEPT ![p] = fileExists]
    /\ calls' = calls + 1
    /\ outcome' = [outcome EXCEPT ![p] = "running"]
    /\ mut' = [mut EXCEPT ![p] = "none"]
    /\ UNCHANGED <<fileExists, fileData, lock, handle, state, observed, last,
                   lastCommit>>
    /\ UNCHANGED <<before, dirExists, toolVars>>

\* Open with mode 'w' whatever isfile reported
OpenAlwaysW(p) ==
    /\ pc[p] = "open"
    /\ pc' = [pc EXCEPT ![p] = "flock"]
    /\ handle' = [handle EXCEPT ![p] = "w"]
    /\ fileExists' = TRUE
    /\ fileData' = <<>>
    /\ lock' = IF handle[p] # "none" /\ lock = p THEN 0 ELSE lock
    /\ UNCHANGED <<exists, state, calls, outcome, mut, observed, last, lastCommit>>
    /\ UNCHANGED <<before, dirExists, toolVars>>

\* line 100: self.handle = open(CONFIG_FILE, 'r+' if exists else 'w').
\* Mode 'w' creates the file or cuts it to zero length.  A handle left in
\* self.handle by a with-statement that raised in __enter__ or __exit__
\* loses this reference: it is closed, and its lock dropped, unless the
\* traceback of that exception still refers to it.
\* Without the directory ~/.redock open raises IOError: nothing is assigned
\* and __enter__ raises.
Open(p) ==
    /\ pc[p] = "open"
    /\ IF dirExists
       THEN /\ pc' = [pc EXCEPT ![p] = "flock"]
            /\ handle' = [handle EXCEPT ![p] = IF exists[p] THEN "r+" ELSE "w"]
            /\ IF exists[p]
               THEN UNCHANGED <<fileExists, fileData>>
               ELSE /\ fileExists' = TRUE
                    /\ fileData' = <<>>
            /\ \/ /\ handle[p] = "none"
                  /\ lock' = lock
               \/ /\ handle[p] # "none"
                  /\ lock' = IF lock = p THEN 0 ELSE lock
               \/ /\ handle[p] # "none"
                  /\ lock = p
                  /\ lock' = lock
            /\ UNCHANGED outcome
       ELSE /\ pc' = [pc EXCEPT ![p] = "idle"]
            /\ outcome' = [outcome EXCEPT ![p] = "io_error"]
            /\ UNCHANGED <<handle, fileExists, fileData, lock>>
    /\ UNCHANGED <<exists, state, calls, mut, observed, last, lastCommit>>
    /\ UNCHANGED <<before, dirExists, toolVars>>

\* Flock with LOCK_NB and the error ignored: it returns whoever holds the lock
FlockNoWait(p) ==
    /\ pc[p] = "flock"
    /\ lock' = p
    /\ pc' = [pc EXCEPT ![p] = "load"]
    /\ UNCHANGED <<fileExists, fileData, exists, handle, state, calls, outcome,
                   mut, observed, last, lastCommit>>
    /\ before' = fileData
    /\ UNCHANGED <<dirExists, toolVars>>

\* line 101: fcntl.flock(self.handle.fileno(), fcntl.LOCK_EX) returns
Flock(p) ==
    /\ pc[p] = "flock"
    /\ lock = 0
    /\ lock' = p
    /\ pc' = [pc EXCEPT ![p] = "load"]
    /\ UNCHANGED <<fileExists, fileData, exists, handle, state, calls, outcome,
                   mut, observed, last, lastCommit>>
    /\ before' = fileData
    /\ UNCHANGED <<dirExists, toolVars>>

\* an __enter__ that loads only while self.state is still the {} of __init__
LoadKeepsState(p) ==
    /\ pc[p] = "load"
    /\ IF state[p] = EmptyDict /\ LoadRaises(exists[p], fileData)
       THEN /\ pc' = [pc EXCEPT ![p] = "idle"]
            /\ outcome' = [outcome EXCEPT ![p] = "unpickle_error"]
            /\ last' = Ended("fail", p, NoRec)
            /\ observed' = [observed EXCEPT ![p] = NoRec]
            /\ before' = <<>>
            /\ UNCHANGED state
       ELSE /\ pc' = [pc EXCEPT ![p] = "block"]
            /\ state' = [state EXCEPT ![p] =
                            IF @ = EmptyDict
                            THEN LoadResult(exists[p], fileData) ELSE @]
            /\ observed' = [observed EXCEPT ![p] = state'[p]]
            /\ UNCHANGED <<outcome, last, before>>
    /\ UNCHANGED <<fileExists, fileData, lock, exists, handle, calls, mut,
                   lastCommit>>
    /\ UNCHANGED <<dirExists, toolVars>>

\* lines 102-103: self.state = self.load(exists=exists); return self.state.
\* When pickle.load raises, __enter__ raises: the with-statement runs
\* neither the body nor __exit__.
Load(p) ==
    /\ pc[p] = "load"
    /\ IF LoadRaises(exists[p], fileData)
       THEN /\ pc' = [pc EXCEPT ![p] = "idle"]
            /\ outcome' = [outcome EXCEPT ![p] = "unpickle_error"]
            /\ last' = Ended("fail", p, NoRec)
            /\ observed' = [observed EXCEPT ![p] = NoRec]
            /\ UNCHANGED state
       ELSE /\ pc' = [pc EXCEPT ![p] = "block"]
            /\ state' = [state EXCEPT ![p] = LoadResult(exists[p], fileData)]
            /\ observed' = [observed EXCEPT ![p] = LoadResult(exists[p], fileData)]
            /\ UNCHANGED <<outcome, last>>
    /\ UNCHANGED <<fileExists, fileData, lock, exists, handle, calls, mut,
                   lastCommit>>
    /\ before' = IF LoadRaises(exists[p], fileData) THEN <<>> ELSE before
    /\ UNCHANGED <<dirExists, toolVars>>

\* ------------------------------------------------------- body of the block
\* state['containers'] of a dict without that key is a KeyError, and so is
\* del state['extra']: the body raises (BlockRaise) with the dict as it was.
BlockMutate(p) ==
    /\ pc[p] = "block"
    /\ mut[p] = "none"
    /\ \E m \in Mutations, id \in Ids :
          /\ m \in {"add", "clear"} => "containers" \in DOMAIN state[p]
          /\ m = "drop" => "extra" \in DOMAIN state[p]
          /\ mut' = [mut EXCEPT ![p] = m]
          /\ state' = [state EXCEPT ![p] = Mutated(state[p], m, id)]
    /\ UNCHANGED <<fileExists, fileData, lock, pc, exists, handle, calls, outcome,
                   observed, last, lastCommit>>
    /\ UNCHANGED <<before, dirExists, toolVars>>

\* the body ends: __exit__(None, None, None)
BlockReturn(p) ==
    /\ pc[p] = "block"
    /\ pc' = [pc EXCEPT ![p] = "exit"]
    /\ UNCHANGED <<fileExists, fileData, lock, exists, handle, state, calls,
                   outcome, mut, observed, last, lastCommit>>
    /\ UNCHANGED <<before, dirExists, toolVars>>

\* the body raises: __exit__(type, value, traceback), lines 111-112
BlockRaise(p) ==
    /\ pc[p] = "block"
    /\ pc' = [pc EXCEPT ![p] = "release"]
    /\ outcome' = [outcome EXCEPT ![p] = "caller_error"]
    /\ UNCHANGED <<fileExists, fileData, lock, exists, handle, state, calls, mut,
                   observed, last, lastCommit>>
    /\ UNCHANGED <<before, dirExists, toolVars>>

\* ----------------------------------------------------------------- __exit__
\* lines 108-109 and the flush of line 110: seek(0), pickle.dump, write(2)
Dump(p) ==
    /\ pc[p] = "exit"
    /\ fileData' = Overwrite(fileData, Dumps(state[p]), Len(Dumps(state[p])))
    /\ lastCommit' = state[p]
    /\ pc' = [pc EXCEPT ![p] = "truncate"]
    /\ UNCHANGED <<fileExists, lock, exists, handle, state, calls, outcome, mut,
                   observed, last>>
    /\ UNCHANGED <<before, dirExists, toolVars>>

\* lines 108-109 fail after k tokens reached the file (a value that does not
\* pickle, a full disk): __exit__ raises before lines 110-115
DumpFail(p) ==
    /\ pc[p] = "exit"
    /\ \E k \in 0..(Len(Dumps(state[p])) - 1) :
          fileData' = Overwrite(fileData, Dumps(state[p]), k)
    /\ pc' = [pc EXCEPT ![p] = "idle"]
    /\ outcome' = [outcome EXCEPT ![p] = "io_error"]
    /\ last' = Ended("fail", p, NoRec)
    /\ observed' = [observed EXCEPT ![p] = NoRec]
    /\ UNCHANGED <<fileExists, lock, exists, handle, state, calls, mut, lastCommit>>
    /\ before' = <<>>
    /\ UNCHANGED <<dirExists, toolVars>>

\* line 110: ftruncate(2) at the position behind the pickle
Truncate(p) ==
    /\ pc[p] = "truncate"
    /\ fileData' = TruncateTo(fileData, Len(Dumps(state[p])))
    /\ pc' = [pc EXCEPT ![p] = "release"]
    /\ UNCHANGED <<fileExists, lock, exists, handle, state, calls, outcome, mut,
                   observed, last, lastCommit>>
    /\ UNCHANGED <<before, dirExists, toolVars>>

\* an __exit__ that ends with "return True"
ExitSwallows == TRUE

\* __exit__ has no return statement: it returns None, and the with-statement
\* re-raises the exception of the block
ExitReturnsTrue == FALSE

\* lines 113-115: flock(LOCK_UN), close, self.handle = None
Unlock(p) ==
    /\ pc[p] = "release"
    /\ lock' = IF lock = p THEN 0 ELSE lock
    /\ handle' = [handle EXCEPT ![p] = "none"]
    /\ pc' = [pc EXCEPT ![p] = "idle"]
    /\ outcome' = [outcome EXCEPT ![p] =
                      IF @ = "running" \/ ExitReturnsTrue THEN "ok" ELSE @]
    /\ last' = IF outcome[p] = "running"
               THEN Ended("commit", p, state[p])
               ELSE Ended("abort", p, observed[p])
    /\ observed' = [observed EXCEPT ![p] = NoRec]
    /\ UNCHANGED <<fileExists, fileData, exists, state, calls, mut, lastCommit>>
    /\ before' = <<>>
    /\ UNCHANGED <<dirExists, toolVars>>

\* ------------------------------------------------ load() outside with-block
\* load() with self.handle None: opens the file when it is there, unpickles
\* and migrates it, with no lock taken.  The dict goes to the caller.
LoadNoLock(p) ==
    /\ pc[p] = "idle"
    /\ handle[p] = "none"
    /\ calls < MaxCalls
    /\ calls' = calls + 1
    /\ ~LoadRaises(fileExists, fileData)
    /\ observed' = [observed EXCEPT ![p] = LoadResult(fileExists, fileData)]
    /\ UNCHANGED <<fileExists, fileData, lock, pc, exists, handle, state,
                   outcome, mut, last, lastCommit>>
    /\ UNCHANGED <<before, dirExists, toolVars>>

\* ------------------------------------------------------------ process ends
\* The process exits or is killed with the file open: the kernel closes the
\* file, which drops the lock it holds.  (The end of a process that has no
\* file open changes nothing another process can see.)
Die(p) ==
    /\ pc[p] # "dead"
    /\ handle[p] # "none"
    /\ pc' = [pc EXCEPT ![p] = "dead"]
    /\ lock' = IF lock = p THEN 0 ELSE lock
    /\ handle' = [handle EXCEPT ![p] = "none"]
    /\ state' = [state EXCEPT ![p] = EmptyDict]
    /\ observed' = [observed EXCEPT ![p] = NoRec]
    /\ last' = IF pc[p] \in Critical THEN Ended("fail", p, NoRec) ELSE last
    /\ exists' = [exists EXCEPT ![p] = FALSE]
    /\ mut' = [mut EXCEPT ![p] = "none"]
    /\ outcome' = [outcome EXCEPT ![p] = "killed"]
    /\ UNCHANGED <<fileExists, fileData, calls, lastCommit>>
    /\ before' = IF pc[p] \in Critical THEN <<>> ELSE before
    /\ UNCHANGED <<dirExists, toolVars>>

\* ------------------------------------------------------------------- text
\* A text is a sequence of tokens; " " and "\n" are its whitespace.
Whitespace == {" ", "\n"}

RECURSIVE LStrip(_)
LStrip(s) ==
    IF s # <<>> /\ Head(s) \in Whitespace THEN LStrip(Tail(s)) ELSE s

RECURSIVE RStrip(_)
RStrip(s) ==
    IF s # <<>> /\ s[Len(s)] \in Whitespace
    THEN RStrip(SubSeq(s, 1, Len(s) - 1))
    ELSE s

\* str.strip()
Strip(s) == LStrip(RStrip(s))

\* ----------------------------------------------------------- the directory
\* create_configuration_directory(): makedirs when isdir says no
CreatedDirectory == TRUE

\* -------------------------------------------------------------- the mirror
\* what urlopen(url).readline() can give: a line, a padded line, or nothing
\* at the end of an empty answer
Lines == {<<"m1", "\n">>, <<" ", "m1", " ", "\n">>, <<>>}

\* a selector that asks the network again when force is set
ResolvesForced(force) == mirrorFile = <<>> \/ force

\* line 163: if not os.path.isfile(UBUNTU_MIRROR_FILE); force is not read
Resolves(force) == mirrorFile = <<>>

\* select_ubuntu_mirror(force) as one step.  urlopen can raise IOError: then
\* nothing is written and the call raises.
SelectMirror(force) ==
    /\ toolCalls < MaxToolCalls
    /\ toolCalls' = toolCalls + 1
    /\ dirExists' = CreatedDirectory
    /\ IF Resolves(force)
       THEN /\ resolved' = resolved + 1
            /\ \/ /\ UNCHANGED mirrorFile
                  /\ ret' = [op |-> "mirror", kind |-> "io_error", val |-> <<>>,
                             force |-> force, fresh |-> TRUE, code |-> NotRun]
               \/ \E line \in Lines :
                     /\ mirrorFile' = Strip(line) \o <<"\n">>
                     /\ ret' = [op |-> "mirror", kind |-> "ok",
                                val |-> Strip(mirrorFile'),
                                force |-> force, fresh |-> TRUE, code |-> NotRun]
       ELSE /\ ret' = [op |-> "mirror", kind |-> "ok", val |-> Strip(mirrorFile),
                       force |-> force, fresh |-> FALSE, code |-> NotRun]
            /\ UNCHANGED <<mirrorFile, resolved>>
    /\ UNCHANGED <<privateKey, publicKey, keygenRuns>>
    /\ UNCHANGED configVars

\* somebody removes ubuntu-mirror.txt
RemoveCache ==
    /\ mirrorFile # <<>>
    /\ mirrorFile' = <<>>
    /\ UNCHANGED <<privateKey, publicKey, keygenRuns, resolved, toolCalls, ret>>
    /\ UNCHANGED <<dirExists, configVars>>

\* ---------------------------------------------------------------- the keys
\* ssh-keygen -f PRIVATE_SSH_KEY writes the private key, then the public key,
\* and exits with 0; when it fails it exits with 1 and has written nothing,
\* or the private key only.
ExitCodes == {0, 1}

KeygenPrivate(code, half) == IF code = 0 \/ half THEN "priv1" ELSE privateKey

KeygenPublic(code) == IF code = 0 THEN <<"pub1", "\n">> ELSE publicKey

\* a generator that never finds the keys
KeysNeverFound == FALSE

\* line 194: if os.path.isfile(PRIVATE_SSH_KEY): return
KeysFound == privateKey # ""

\* generate_ssh_key_pair() as one step
GenerateKeys ==
    /\ toolCalls < MaxToolCalls
    /\ toolCalls' = toolCalls + 1
    /\ dirExists' = CreatedDirectory
    /\ IF KeysFound
       THEN /\ ret' = [op |-> "generate", kind |-> "ok", val |-> <<>>,
                       force |-> FALSE, fresh |-> FALSE, code |-> NotRun]
            /\ UNCHANGED <<privateKey, publicKey, keygenRuns>>
       ELSE /\ keygenRuns' = keygenRuns + 1
            /\ \E code \in ExitCodes, half \in BOOLEAN :
                  /\ privateKey' = KeygenPrivate(code, half)
                  /\ publicKey' = KeygenPublic(code)
                  /\ ret' = [op |-> "generate",
                             kind |-> IF code = 0 THEN "ok" ELSE "error",
                             val |-> <<>>, force |-> FALSE, fresh |-> TRUE, code |-> code]
    /\ UNCHANGED <<mirrorFile, resolved>>
    /\ UNCHANGED configVars

\* get_ssh_public_key() as one step: generate_ssh_key_pair() when the public
\* key is not there, then open(PUBLIC_SSH_KEY), which raises IOError when
\* the file is still not there.
GetPublicKey ==
    /\ toolCalls < MaxToolCalls
    /\ toolCalls' = toolCalls + 1
    /\ IF publicKey # <<>>
       THEN /\ ret' = [op |-> "getkey", kind |-> "ok", val |-> Strip(publicKey),
                       force |-> FALSE, fresh |-> FALSE, code |-> NotRun]
            /\ UNCHANGED <<privateKey, publicKey, keygenRuns, dirExists>>
       ELSE /\ dirExists' = CreatedDirectory
            /\ IF KeysFound
               THEN /\ ret' = [op |-> "getkey", kind |-> "io_error", val |-> <<>>,
                               force |-> FALSE, fresh |-> FALSE, code |-> NotRun]
                    /\ UNCHANGED <<privateKey, publicKey, keygenRuns>>
               ELSE /\ keygenRuns' = keygenRuns + 1
                    /\ \E code \in ExitCodes, half \in BOOLEAN :
                          /\ privateKey' = KeygenPrivate(code, half)
                          /\ publicKey' = KeygenPublic(code)
                          /\ ret' = [op |-> "getkey",
                                     kind |-> IF code = 0 THEN "ok" ELSE "error",
                                     val |-> IF code = 0 THEN Strip(publicKey')
                                             ELSE <<>>,
                                     force |-> FALSE, fresh |-> TRUE, code |-> code]
    /\ UNCHANGED <<mirrorFile, resolved>>
    /\ UNCHANGED configVars

\* ------------------------------------------------------------ specification
\* no other process is inside a with-statement
Quiet(p) == \A q \in Procs \ {p} : pc[q] \in {"idle", "dead"}

Next ==
    \E p \in Procs :
        \/ IsFile(p)
        \/ Open(p)
        \/ Flock(p)
        \/ Load(p)
        \/ BlockMutate(p)
        \/ BlockReturn(p)
        \/ BlockRaise(p)
        \/ Dump(p)
        \/ DumpFail(p)
        \/ Truncate(p)
        \/ Unlock(p)
        \/ LoadNoLock(p)
        \/ Die(p)

Spec == Init /\ [][Next]_vars

\* With-statements that do not overlap: a process starts one only while no
\* other process is inside one.
NextSeq ==
    \E p \in Procs :
        \/ Quiet(p) /\ IsFile(p)
        \/ Open(p)
        \/ Flock(p)
        \/ Load(p)
        \/ BlockMutate(p)
        \/ BlockReturn(p)
        \/ BlockRaise(p)
        \/ Dump(p)
        \/ DumpFail(p)
        \/ Truncate(p)
        \/ Unlock(p)
        \/ LoadNoLock(p)
        \/ Die(p)

SpecSeq == Init /\ [][NextSeq]_vars

\* Every step of __enter__ and __exit__ that is not waiting is taken, every
\* block ends (it returns or raises), pickle.dump ends (it returns or
\* raises), and flock(LOCK_EX) is granted to a process that is waiting while
\* the lock is free again and again.  Nothing obliges a process to start a
\* with-statement, to change the dict, or to die.
Fairness ==
    \A p \in Procs :
        /\ WF_vars(Open(p))
        /\ SF_vars(Flock(p))
        /\ WF_vars(Load(p))
        /\ WF_vars(BlockReturn(p) \/ BlockRaise(p))
        /\ WF_vars(Dump(p) \/ DumpFail(p))
        /\ WF_vars(Truncate(p))
        /\ WF_vars(Unlock(p))

SpecFair == Init /\ [][Next]_vars /\ Fairness

\* The functions outside Config, called one after the other by one process
\* that runs no with-statement.  At the start ~/.redock may be missing; when
\* it is there it may hold a mirror file and a key pair of earlier runs.
InitTools ==
    /\ ConfigUnused
    /\ fileExists = FALSE
    /\ fileData = <<>>
    /\ lastCommit = NoRec
    /\ keygenRuns = 0
    /\ resolved = 0
    /\ toolCalls = 0
    /\ ret = NoRet
    /\ \/ /\ dirExists = FALSE
          /\ mirrorFile = <<>>
          /\ privateKey = ""
          /\ publicKey = <<>>
       \/ /\ dirExists = TRUE
          /\ mirrorFile \in {<<>>, <<"m0", "\n">>, <<" ", "m0">>}
          /\ \/ privateKey = "" /\ publicKey = <<>>
             \/ privateKey = "priv0" /\ publicKey = <<"pub0", "\n">>

NextTools ==
    \/ \E force \in BOOLEAN : SelectMirror(force)
    \/ RemoveCache
    \/ GenerateKeys
    \/ GetPublicKey

SpecTools == InitTools /\ [][NextTools]_vars

\* ------------------------------------------------------------------ claims
\* p leaves line 102: load returned or raised
LoadEnds(p) == pc[p] = "load" /\ pc'[p] \in {"idle", "block"}

\* C1: at most one process at a time is between the return of
\* flock(LOCK_EX) in __enter__ and flock(LOCK_UN) in __exit__, and that
\* process holds the lock.
C1_MutualExclusion ==
    \A p \in Procs :
        pc[p] \in Critical =>
            /\ lock = p
            /\ \A q \in Procs \ {p} : pc[q] \notin Critical

\* one process is in the body of its block while another waits in flock
C1_Witness ==
    \E p, q \in Procs :
        /\ pc[p] = "block"
        /\ pc[q] = "flock"
        /\ handle[q] # "none"

\* C2: when every process has run one with-block that added 1 to the
\* counter and ended without error, the counter in the file is the number of
\* processes, whatever the file was at the start (also absent).
C2_NoLostUpdate ==
    (/\ calls = NumProcs
     /\ \A p \in Procs :
           pc[p] = "idle" /\ outcome[p] = "ok" /\ mut[p] = "inc")
    => /\ Parses(fileData)
       /\ GetInt(Loads(fileData), "counter", 0) = NumProcs

\* C3: after a with-block whose body changed the dict and raised, the next
\* with-block is handed the dict the failed one was handed before it changed
\* it (the default dict when the file did not exist before the failed one).
C3_AbortLeavesState ==
    [][\A q \in Procs :
          (LoadEnds(q) /\ last.kind = "abort" /\ last.mut # "none")
          => (pc'[q] = "block" /\ state'[q] = last.rec)]_vars

\* C4: once a with-statement has returned or raised to its caller, the
\* Config object holds no lock and self.handle is None.
C4_AlwaysReleased ==
    \A p \in Procs :
        pc[p] = "idle" => (handle[p] = "none" /\ lock # p)

\* C5: only the process that holds the lock changes the content of the
\* file, and load() outside a with-block does not read the file while
\* another process holds the lock.
C5_OnlyHolderTouchesFile ==
    [][\A p \in Procs :
          /\ (fileData' # fileData /\ pc'[p] # pc[p]) => lock = p
          /\ (LoadNoLock(p) /\ fileExists) => lock \in {0, p}]_vars

\* C6: the dict load hands to a with-block is the default dict or the
\* (migrated) dict that the last complete pickle.dump wrote, never a mix
\* left behind by a dump that failed or a process that died.
C6_NoIntermediateState ==
    \A p \in Procs :
        pc[p] = "block" =>
            \/ observed[p] = DefaultRecord
            \/ lastCommit # NoRec /\ observed[p] = Migrate(lastCommit)

\* C7: a with-statement started when the file does not exist is handed
\* version = CONFIG_VERSION and empty containers; when such a with-block
\* added one entry and ended without error, the next with-statement is
\* handed containers with exactly that entry.
C7_FirstRun ==
    [][\A q \in Procs :
          LoadEnds(q) =>
            /\ ~exists[q] => (pc'[q] = "block" /\ state'[q] = DefaultRecord)
            /\ (last.kind = "commit" /\ last.fresh /\ last.mut = "add") =>
                  /\ pc'[q] = "block"
                  /\ state'[q]["containers"] = last.rec["containers"]
                  /\ Cardinality(state'[q]["containers"].s) = 1]_vars

\* a with-block holds the one entry that the first with-block, started
\* without a file, has added and saved
C7_Witness ==
    \E q \in Procs :
        /\ pc[q] = "block"
        /\ mut[q] = "none"
        /\ last.kind = "commit" /\ last.fresh /\ last.mut = "add"
        /\ state[q] = last.rec
        /\ Cardinality(state[q]["containers"].s) = 1

\* C8: a with-statement on a file of zero length is handed the default dict
\* and goes on, instead of failing to unpickle.
C8_EmptyFileIsDefault ==
    [][\A p \in Procs :
          (LoadEnds(p) /\ exists[p] /\ fileData = <<>>)
          => (pc'[p] = "block" /\ state'[p] = DefaultRecord)]_vars

\* C9: a with-statement on a file whose bytes are no pickle fails with an
\* unpickling error, never runs the body, leaves the bytes as they were and
\* releases the lock.
C9_CorruptFile ==
    [][\A p \in Procs :
          (LoadEnds(p) /\ exists[p] /\ fileData # <<>> /\ ~Parses(fileData))
          => /\ pc'[p] = "idle"
             /\ outcome'[p] = "unpickle_error"
             /\ fileData' = fileData
             /\ lock' # p
             /\ handle'[p] = "none"]_vars

\* C10: load turns a stored dict without version, or with version 0, into
\* one with version 1 that keeps the containers it had (empty containers
\* when it had none) and every other field.
C10_MigrationKeepsContainers ==
    [][\A p \in Procs :
          (pc[p] = "load" /\ pc'[p] = "block" /\ exists[p]
             /\ GetInt(Loads(fileData), "version", 0) = 0)
          => /\ state'[p]["version"].n = CONFIG_VERSION
             /\ state'[p]["containers"] =
                   (IF "containers" \in DOMAIN Loads(fileData)
                    THEN Loads(fileData)["containers"] ELSE MapVal({}))
             /\ \A k \in (DOMAIN Loads(fileData)) \ {"version", "containers"} :
                   state'[p][k] = Loads(fileData)[k]]_vars

\* what the file held when the lock was taken is the pickle of one dict and
\* nothing else
StoredRecord(data) == Parses(data) /\ data = Dumps(Loads(data))

\* the with-statement of p found a file, its block has returned and the dict
\* has been written and the file cut: only flock(LOCK_UN) is left
Persisted(p) ==
    /\ pc[p] = "release"
    /\ outcome[p] = "running"
    /\ exists[p]
    /\ StoredRecord(before)

\* C11: when the file held a dict with version 0 and no containers, a
\* with-statement that ends without error leaves a file holding version 1
\* and empty containers (as long as its block added none); when the file
\* held a dict with version CONFIG_VERSION and the block changed nothing,
\* the file is afterwards what it was before.
C11_MigrationIdempotent ==
    \A p \in Procs :
        Persisted(p) =>
          /\ (/\ GetInt(Loads(before), "version", 0) = 0
              /\ "containers" \notin DOMAIN Loads(before)
              /\ mut[p] # "add")
             => /\ Parses(fileData)
                /\ GetInt(Loads(fileData), "version", 0) = 1
                /\ "containers" \in DOMAIN Loads(fileData)
                /\ Loads(fileData)["containers"] = MapVal({})
                /\ mut[p] = "none" =>
                      fileData = Dumps(MigrateAlways(Loads(before)))
          /\ (/\ GetInt(Loads(before), "version", 0) = CONFIG_VERSION
              /\ mut[p] = "none")
             => fileData = before

\* a with-statement has rewritten a file that held only version 0, without
\* changing the dict it was handed
C11_Witness ==
    \E p \in Procs :
        /\ Persisted(p)
        /\ mut[p] = "none"
        /\ Loads(before) = [k \in {"version"} |-> IntVal(0)]
        /\ fileData = Dumps(DefaultRecord)

\* C12: a file whose dict has a version above CONFIG_VERSION is loaded
\* without error and handed to the block as it is stored, with its version,
\* its containers and its other fields; a with-statement on it that ends
\* without error leaves the same version in the file, and the same dict
\* when the block changed nothing.
C12_NewerVersionKept ==
    [][\A p \in Procs :
          /\ (/\ LoadEnds(p) /\ exists[p] /\ Parses(fileData)
              /\ GetInt(Loads(fileData), "version", 0) > CONFIG_VERSION)
             => /\ pc'[p] = "block"
                /\ state'[p] = Loads(fileData)
          /\ (/\ Persisted(p)
              /\ GetInt(Loads(before), "version", 0) > CONFIG_VERSION)
             => /\ Parses(fileData)
                /\ GetInt(Loads(fileData), "version", 0) =
                      GetInt(Loads(before), "version", 0)
                /\ mut[p] = "none" => Loads(fileData) = Loads(before)
                /\ pc'[p] = "idle" => outcome'[p] = "ok"]_vars

\* a with-statement has written back a dict of version CONFIG_VERSION + 1
\* with its containers and its unknown field
C12_Witness ==
    \E p \in Procs :
        /\ Persisted(p)
        /\ mut[p] = "none"
        /\ GetInt(Loads(before), "version", 0) = CONFIG_VERSION + 1
        /\ Loads(before)["containers"].s # {}
        /\ "extra" \in DOMAIN Loads(before)
        /\ Loads(fileData) = Loads(before)

\* the version of the dict that pickle.load finds in data
StoredVersion(data) == GetInt(Loads(data), "version", 0)

\* C13: with blocks that leave state['version'] alone, no step lowers the
\* version that can be read from the file, every dict that pickle.dump
\* writes has a version of at least CONFIG_VERSION, and none has a lower
\* version than the dict that was written or found before it.
C13_VersionNeverDecreases ==
    [][/\ (fileData' # fileData /\ Parses(fileData) /\ Parses(fileData'))
          => StoredVersion(fileData') >= StoredVersion(fileData)
       /\ \A p \in Procs :
            (pc[p] = "exit" /\ pc'[p] = "truncate")
            => /\ GetInt(state[p], "version", 0) >= CONFIG_VERSION
               /\ lastCommit # NoRec =>
                     GetInt(state[p], "version", 0) >=
                        GetInt(lastCommit, "version", 0)]_vars

\* pickle.dump has just written version CONFIG_VERSION over a dict that had
\* version 0 or none
C13_Witness ==
    \E p \in Procs :
        /\ pc[p] = "truncate"
        /\ exists[p]
        /\ Parses(before)
        /\ StoredVersion(before) = 0
        /\ Parses(fileData)
        /\ StoredVersion(fileData) = CONFIG_VERSION

\* C14: when the block raises, the with-statement ends with that exception:
\* __exit__ leaves the outcome and the file as they are, and no other step
\* than a raising block gives this outcome.
C14_CallerErrorPropagates ==
    [][\A p \in Procs :
          /\ (pc[p] = "block" /\ pc'[p] = "release")
             => outcome'[p] = "caller_error"
          /\ (pc[p] = "release" /\ outcome[p] = "caller_error" /\ pc'[p] = "idle")
             => /\ outcome'[p] = "caller_error"
                /\ fileData' = fileData
          /\ (outcome'[p] = "caller_error" /\ outcome[p] # "caller_error")
             => (pc[p] = "block" /\ pc'[p] = "release")]_vars

\* a with-statement whose block changed the dict and raised has ended with
\* the exception of the block
C14_Witness ==
    \E p \in Procs :
        /\ pc[p] = "idle"
        /\ outcome[p] = "caller_error"
        /\ mut[p] # "none"
        /\ last.kind = "abort"
        /\ last.by = p

\* a call of a function outside Config has just returned or raised
ToolStep(op) == toolCalls' # toolCalls /\ ret'.op = op

\* C15: a with-statement started while ~/.redock is missing creates the
\* directory and opens the file instead of failing at open, and after
\* select_ubuntu_mirror and generate_ssh_key_pair the directory is there.
C15_DirectoryCreated ==
    [][/\ \A p \in Procs :
            (pc[p] = "open" /\ pc'[p] \notin {"open", "dead"})
            => (dirExists' /\ pc'[p] = "flock")
       /\ (ToolStep("mirror") \/ ToolStep("generate")) => dirExists']_vars

\* C16: generate_ssh_key_pair with both keys there does not start
\* ssh-keygen and leaves both files as they are; with no key there it
\* starts ssh-keygen once and raises when the exit code is not 0.
\* get_ssh_public_key starts the generation only when the public key is
\* missing, and returns the stripped public key whenever the key was there
\* or ssh-keygen exited with 0.
C16_KeyPairIdempotent ==
    [][/\ (ToolStep("generate") /\ privateKey # "" /\ publicKey # <<>>)
          => /\ keygenRuns' = keygenRuns
             /\ privateKey' = privateKey
             /\ publicKey' = publicKey
             /\ ret'.kind = "ok"
       /\ (ToolStep("generate") /\ privateKey = "" /\ publicKey = <<>>)
          => /\ keygenRuns' = keygenRuns + 1
             /\ ret'.code # NotRun
             /\ ret'.code # 0 => ret'.kind = "error"
             /\ ret'.code = 0 =>
                   (ret'.kind = "ok" /\ privateKey' # "" /\ publicKey' # <<>>)
       /\ (ToolStep("getkey") /\ publicKey # <<>>)
          => /\ keygenRuns' = keygenRuns
             /\ publicKey' = publicKey
       /\ (ToolStep("getkey") /\ (publicKey # <<>> \/ ret'.code = 0))
          => /\ ret'.kind = "ok"
             /\ ret'.val = Strip(publicKey')
             /\ ret'.val # <<>>]_vars

\* ssh-keygen ran once, for an earlier call, and the last call of
\* generate_ssh_key_pair found the keys and did nothing
C16_Witness ==
    /\ ret.op = "generate"
    /\ ~ret.fresh
    /\ ret.kind = "ok"
    /\ keygenRuns = 1
    /\ privateKey = "priv1"
    /\ publicKey = <<"pub1", "\n">>

\* C17: select_ubuntu_mirror asks the network only when the mirror file is
\* missing; while the file is there every call, with force set or not,
\* returns the stripped content of the file and neither asks the network
\* nor changes the file.
C17_MirrorCached ==
    [][/\ (ToolStep("mirror") /\ mirrorFile # <<>>)
          => /\ resolved' = resolved
             /\ mirrorFile' = mirrorFile
             /\ ret'.kind = "ok"
             /\ ret'.val = Strip(mirrorFile)
       /\ (ToolStep("mirror") /\ mirrorFile = <<>>)
          => resolved' = resolved + 1
       /\ resolved' # resolved
          => (ToolStep("mirror") /\ mirrorFile = <<>>)]_vars

\* the network was asked once, for an earlier call, and the last call, with
\* force set, returned the mirror from the file
C17_Witness ==
    /\ ret.op = "mirror"
    /\ ret.force
    /\ ~ret.fresh
    /\ ret.kind = "ok"
    /\ resolved = 1
    /\ ret.val = <<"m1">>

\* C18: when a with-statement that ended without error reaches
\* flock(LOCK_UN) it holds the lock and the file is exactly the pickle of
\* its dict, with nothing of the old content behind it; and the next load
\* under the lock after such a with-statement returns the dict it wrote.
C18_PersistBeforeUnlock ==
    [][\A p \in Procs :
          /\ (pc[p] = "release" /\ outcome[p] = "running" /\ pc'[p] = "idle")
             => /\ lock = p
                /\ fileData = Dumps(state[p])
          /\ (LoadEnds(p) /\ last.kind = "commit")
             => /\ pc'[p] = "block"
                /\ state'[p] = last.rec]_vars

\* C19: with blocks that end and a fair lock, every with-statement that
\* was started comes to its end (it returns, raises, or its process dies),
\* and every process that waits in flock(LOCK_EX) gets past it.
C19_EveryTransactionEnds ==
    \A p \in Procs :
        /\ (pc[p] \notin {"idle", "dead"}) ~> (pc[p] \in {"idle", "dead"})
        /\ (pc[p] = "flock") ~> (pc[p] # "flock")

\* C20: the dict a with-statement hands to its block is the one load makes,
\* while the object holds the lock, from the file as it is at that moment,
\* whatever self.state held: what an earlier with-statement of the same
\* Config object left in self.state when its block raised is not in it
\* unless the file holds it.
C20_ReloadedOnEveryEnter ==
    [][\A q \in Procs :
          (LoadEnds(q) /\ pc'[q] = "block")
          => /\ lock = q
             /\ state'[q] = LoadResult(exists[q], fileData)
             /\ (state[q] # LoadResult(exists[q], fileData))
                => state'[q] # state[q]]_vars

\* a Config object whose last with-statement added a container and raised
\* hands out the dict without that container
C20_Witness ==
    \E q \in Procs :
        /\ pc[q] = "block"
        /\ mut[q] = "none"
        /\ last.kind = "abort"
        /\ last.by = q
        /\ last.mut = "add"
        /\ state[q] = last.rec
        /\ state[q]["containers"].s = {}

====
